---- MODULE Spec2Model ----
(***************************************************************************)
(* Model of the action orchestration of soar-ai:                           *)
(*   EventProcessor.process_event, analyze_with_ai, execute_actions,       *)
(*   evaluate_condition and enhance_parameters_with_dependencies           *)
(*   (src/src/client/event_processor.py), MCPClient.call_server            *)
(*   (src/src/client/mcp_client.py) and RuleBasedFallback                  *)
(*   (src/src/client/ai_provider.py).                                      *)
(*                                                                         *)
(* Python values are represented as follows:                               *)
(*   str    TLA+ string (Len, \o and SubSeq work on strings in TLC)        *)
(*   dict   record; "k in d" is  k \in DOMAIN d                            *)
(*   None   for step / depends_on: the integer None (steps are positive)   *)
(*          for condition: the empty string (both are falsy at line 374)   *)
(*          for a dependency result: the record PyNone                     *)
(*   JSON null as a response body: the record JsonNull                     *)
(***************************************************************************)
EXTENDS Integers, Sequences, FiniteSets, TLC

\* Bounds of the model.
MaxActions == 3
MaxStep == 2

None == 0
NoCondition == ""
PyNone == [py_none |-> TRUE]
JsonNull == [json_null |-> TRUE]

----------------------------------------------------------------------------
(* String helpers: Python's  in, find, split, strip, lower, float, str.    *)

CharAt(s, k) == SubSeq(s, k, k)

\* sub in s
Contains(s, sub) ==
    \E k \in 1..(Len(s) - Len(sub) + 1) : SubSeq(s, k, k + Len(sub) - 1) = sub

\* s.find(sub) + 1 (0 when absent)
FindFirst(s, sub) ==
    IF Contains(s, sub)
    THEN CHOOSE k \in 1..(Len(s) - Len(sub) + 1) :
            /\ SubSeq(s, k, k + Len(sub) - 1) = sub
            /\ \A j \in 1..(k - 1) : SubSeq(s, j, j + Len(sub) - 1) # sub
    ELSE 0

\* s.split(sep)[1], for a string that contains sep
SplitSecond(s, sep) ==
    LET rest == SubSeq(s, FindFirst(s, sep) + Len(sep), Len(s))
        nxt  == FindFirst(rest, sep)
    IN  IF nxt = 0 THEN rest ELSE SubSeq(rest, 1, nxt - 1)

RECURSIVE LStrip(_)
LStrip(s) == IF Len(s) > 0 /\ CharAt(s, 1) = " " THEN LStrip(SubSeq(s, 2, Len(s))) ELSE s

RECURSIVE RStrip(_)
RStrip(s) == IF Len(s) > 0 /\ CharAt(s, Len(s)) = " " THEN RStrip(SubSeq(s, 1, Len(s) - 1)) ELSE s

Strip(s) == RStrip(LStrip(s))

UpperLetters == "ABCDEFGHIJKLMNOPQRSTUVWXYZ"
LowerLetters == "abcdefghijklmnopqrstuvwxyz"

LowerChar(c) ==
    IF Contains(UpperLetters, c) THEN CharAt(LowerLetters, FindFirst(UpperLetters, c)) ELSE c

RECURSIVE Lower(_)
Lower(s) == IF Len(s) = 0 THEN s ELSE LowerChar(CharAt(s, 1)) \o Lower(SubSeq(s, 2, Len(s)))

Digits == "0123456789"

IsDigit(c) == Contains(Digits, c)

DigitVal(c) == FindFirst(Digits, c) - 1

\* The literals float() accepts among the texts of the model: an optional
\* sign followed by decimal digits.  Every other text raises ValueError.
IsNumeral(s) ==
    LET body == IF Len(s) > 0 /\ CharAt(s, 1) \in {"+", "-"} THEN SubSeq(s, 2, Len(s)) ELSE s
    IN  /\ Len(body) > 0
        /\ \A k \in 1..Len(body) : IsDigit(CharAt(body, k))

RECURSIVE DigitsVal(_)
DigitsVal(s) ==
    IF Len(s) = 0 THEN 0
    ELSE 10 * DigitsVal(SubSeq(s, 1, Len(s) - 1)) + DigitVal(CharAt(s, Len(s)))

\* float(s) for a numeral s
ParseFloat(s) ==
    IF CharAt(s, 1) = "-" THEN 0 - DigitsVal(SubSeq(s, 2, Len(s)))
    ELSE IF CharAt(s, 1) = "+" THEN DigitsVal(SubSeq(s, 2, Len(s)))
    ELSE DigitsVal(s)

----------------------------------------------------------------------------
(* dict helpers *)

\* d.get(k, default)
Get(d, k, default) == IF k \in DOMAIN d THEN d[k] ELSE default

IsPyNone(d) == "py_none" \in DOMAIN d

IsJsonNull(b) == "json_null" \in DOMAIN b

\* The keys of the response bodies whose values are strings.
StringFields == {"severity", "status", "reputation", "record_id"}

\* w in str(result_data).lower(): the text of a dict shows its keys and values
RECURSIVE StrMentions(_, _)
StrMentions(b, w) ==
    \E k \in DOMAIN b :
        \/ Contains(Lower(k), w)
        \/ k \in StringFields /\ Contains(Lower(b[k]), w)
        \/ k = "data" /\ StrMentions(b[k], w)

----------------------------------------------------------------------------
(* EventProcessor.evaluate_condition                                       *)

\* Outcome of a block of code: it raised, or it returned ret.
Raised == [exc |-> TRUE, ret |-> FALSE]
Returned(v) == [exc |-> FALSE, ret |-> v]

\* A Python number that is a whole number or differs from one by a
\* rounding error of the float arithmetic: the whole number, and the sign
\* of the difference (-1, 0, 1).
Exact(n) == [whole |-> n, excess |-> 0]
Inexact(n, sign) == [whole |-> n, excess |-> sign]

\* x > t, x < t and x == t for such a number x and a whole number t
FloatGt(x, t) == x.whole > t \/ (x.whole = t /\ x.excess > 0)
FloatLt(x, t) == x.whole < t \/ (x.whole = t /\ x.excess < 0)
FloatEq(x, t) == x.whole = t /\ x.excess = 0

\* floor(log2(num / den)) for positive num, den
RECURSIVE FloorLog2(_, _)
FloorLog2(num, den) ==
    IF num >= 2 * den THEN FloorLog2(num, 2 * den) + 1
    ELSE IF num < den THEN FloorLog2(2 * num, den) - 1
    ELSE 0

RECURSIVE Pow2(_)
Pow2(n) == IF n = 0 THEN 1 ELSE 2 * Pow2(n - 1)

\* (m * 2^s) mod t
RECURSIVE ShiftMod(_, _, _)
ShiftMod(m, s, t) == IF s = 0 THEN m % t ELSE (2 * ShiftMod(m, s - 1, t)) % t

\* Number of significand bits of a float (IEEE 754 binary64)
SignificandBits == 53

\* The sign of  (malicious / total) * 100 - N  in float arithmetic, for
\* 0 < malicious <= total and N = 100 * malicious / total a whole number.
\* The quotient is rounded to 53 bits: it is (malicious * 2^s + delta) /
\* (total * 2^s) with s = 52 - floor(log2(malicious / total)) and delta the
\* rounding error scaled by total.  The product with 100 is N + 100 * delta
\* / (total * 2^s), rounded to the floats around N, whose spacing is
\* 2^(floor(log2 N) - 52) above N and half of that below a power of two.
RoundingExcess(malicious, total) ==
    LET N     == (malicious * 100) \div total
        Lq    == FloorLog2(malicious, total)
        L     == FloorLog2(N, 1)
        rem   == ShiftMod(malicious, SignificandBits - 1 - Lq, total)
        delta == IF 2 * rem < total THEN 0 - rem ELSE total - rem
        mag   == IF delta < 0 THEN 0 - 100 * delta ELSE 100 * delta
        D     == total * Pow2(L - Lq)
    IN  IF delta < 0 /\ N = Pow2(L)
        THEN (IF 4 * mag > D THEN -1 ELSE 0)
        ELSE IF 2 * mag > D THEN (IF delta > 0 THEN 1 ELSE -1)
        ELSE 0

\* (malicious / total) * 100 if total > 0 else 0, in float arithmetic.  The
\* bodies of the model carry ratios whose exact percentage is a whole
\* number.
RatioScore(malicious, total) ==
    IF total > 0
    THEN IF malicious = 0 THEN Exact(0)
         ELSE Inexact((malicious * 100) \div total, RoundingExcess(malicious, total))
    ELSE Exact(0)

\* lines 441-450: the threat score, from the places the evaluator looks in
ThreatScoreOf(result_data) ==
    IF "threat_score" \in DOMAIN result_data THEN Exact(result_data["threat_score"])
    ELSE IF "data" \in DOMAIN result_data /\ "threat_score" \in DOMAIN result_data["data"]
         THEN Exact(result_data["data"]["threat_score"])
    ELSE IF "malicious" \in DOMAIN result_data /\ "total" \in DOMAIN result_data
         THEN RatioScore(result_data["malicious"], result_data["total"])
    ELSE Exact(0)

\* Variant: fail closed.
DefaultFailClosed == FALSE

\* line 479: the value returned when no pattern decides
DefaultWhenUnrecognized == TRUE

\* float(condition.split(op)[1].strip()): raises ValueError on a non-numeral
ThresholdText(condition, op) == Strip(SplitSecond(condition, op))

\* Variant: the comparisons ">" and "<" are swapped.
NumericComparisonSwapped(condition, threat_score) ==
    IF Contains(condition, ">")
    THEN IF IsNumeral(ThresholdText(condition, ">"))
         THEN Returned(FloatLt(threat_score, ParseFloat(ThresholdText(condition, ">"))))
         ELSE Raised
    ELSE IF Contains(condition, "<")
    THEN IF IsNumeral(ThresholdText(condition, "<"))
         THEN Returned(FloatGt(threat_score, ParseFloat(ThresholdText(condition, "<"))))
         ELSE Raised
    ELSE IF Contains(condition, "==")
    THEN IF IsNumeral(ThresholdText(condition, "=="))
         THEN Returned(FloatEq(threat_score, ParseFloat(ThresholdText(condition, "=="))))
         ELSE Raised
    ELSE Returned(TRUE)

\* lines 452-461
NumericComparison(condition, threat_score) ==
    IF Contains(condition, ">")
    THEN IF IsNumeral(ThresholdText(condition, ">"))
         THEN Returned(FloatGt(threat_score, ParseFloat(ThresholdText(condition, ">"))))
         ELSE Raised
    ELSE IF Contains(condition, "<")
    THEN IF IsNumeral(ThresholdText(condition, "<"))
         THEN Returned(FloatLt(threat_score, ParseFloat(ThresholdText(condition, "<"))))
         ELSE Raised
    ELSE IF Contains(condition, "==")
    THEN IF IsNumeral(ThresholdText(condition, "=="))
         THEN Returned(FloatEq(threat_score, ParseFloat(ThresholdText(condition, "=="))))
         ELSE Raised
    ELSE Returned(DefaultWhenUnrecognized)

\* lines 463-470
SeverityComparison(condition, result_data) ==
    LET severity == Lower(Get(result_data, "severity", ""))
    IN  IF Contains(Lower(condition), "high") THEN Returned(severity \in {"high", "critical"})
        ELSE IF Contains(Lower(condition), "critical") THEN Returned(severity = "critical")
        ELSE IF Contains(Lower(condition), "medium")
             THEN Returned(severity \in {"medium", "high", "critical"})
        ELSE Returned(DefaultWhenUnrecognized)

\* lines 433-479: the body of the try block
EvaluateConditionBody(condition, dependency_result) ==
    IF IsPyNone(dependency_result) THEN Raised
    ELSE IF ~Get(dependency_result, "success", FALSE) THEN Returned(FALSE)
    ELSE LET result_data == Get(dependency_result, "result", <<>>)
         IN  IF Contains(condition, "threat_score")
             THEN IF IsJsonNull(result_data) THEN Raised
                  ELSE NumericComparison(condition, ThreatScoreOf(result_data))
             ELSE IF Contains(condition, "severity")
             THEN IF IsJsonNull(result_data) THEN Raised
                  ELSE SeverityComparison(condition, result_data)
             ELSE IF Contains(Lower(condition), "compromised")
             THEN IF IsJsonNull(result_data) THEN Raised
                  ELSE LET status == Lower(Get(result_data, "status", ""))
                       IN  Returned(Contains(status, "compromised") \/ Contains(status, "infected"))
             ELSE IF Contains(Lower(condition), "malicious")
             THEN IF IsJsonNull(result_data) THEN Raised
                  ELSE Returned(Get(result_data, "malicious", 0) > 0
                                \/ StrMentions(result_data, "malicious"))
             ELSE Returned(DefaultWhenUnrecognized)

\* Variant: no try/except around the body.
CatchNothing(outcome) == outcome

\* lines 481-483: except Exception: ... return False
CatchAll(outcome) == IF outcome.exc THEN Returned(FALSE) ELSE outcome

\* lines 430-483
evaluate_condition(condition, dependency_result) ==
    CatchAll(EvaluateConditionBody(condition, dependency_result))

----------------------------------------------------------------------------
(* EventProcessor.enhance_parameters_with_dependencies                     *)

\* d[k] = v on a copy of d
With(d, k, v) == (k :> v) @@ d

\* lines 506-514
PriorityFor(threat_score) ==
    IF threat_score > 80 THEN "1 - Critical"
    ELSE IF threat_score > 60 THEN "2 - High"
    ELSE IF threat_score > 30 THEN "3 - Medium"
    ELSE "4 - Low"

\* lines 495-502: the text appended to the description
ThreatIntelligenceText(result_data) ==
    (IF "threat_score" \in DOMAIN result_data
     THEN "\n\nThreat Intelligence:\nThreat Score: " \o ToString(result_data["threat_score"])
     ELSE "")
    \o
    (IF "malicious" \in DOMAIN result_data /\ "total" \in DOMAIN result_data
     THEN "\nVirusTotal Detections: " \o ToString(result_data["malicious"])
          \o "/" \o ToString(result_data["total"])
     ELSE "")
    \o
    (IF "reputation" \in DOMAIN result_data
     THEN "\nReputation: " \o result_data["reputation"]
     ELSE "")

\* Variant: the record is built from an empty dict instead of the copy.
EnhanceCreateRecordFresh(enhanced_params, result_data) ==
    IF "threat_score" \in DOMAIN result_data
    THEN [description |-> ThreatIntelligenceText(result_data),
          priority |-> PriorityFor(result_data["threat_score"])]
    ELSE [description |-> ThreatIntelligenceText(result_data)]

\* lines 494-514
EnhanceCreateRecord(enhanced_params, result_data) ==
    LET described ==
            IF "description" \in DOMAIN enhanced_params
            THEN With(enhanced_params, "description",
                      enhanced_params["description"] \o ThreatIntelligenceText(result_data))
            ELSE enhanced_params
    IN  IF "threat_score" \in DOMAIN result_data
        THEN With(described, "priority", PriorityFor(result_data["threat_score"]))
        ELSE described

\* lines 517-522
EnhanceUpdateRecord(enhanced_params, result_data) ==
    IF "status" \in DOMAIN result_data
    THEN LET commented == With(enhanced_params, "additional_comments",
                               "Endpoint Status: " \o result_data["status"])
         IN  IF result_data["status"] = "compromised"
             THEN With(With(commented, "state", "In Progress"), "priority", "1 - Critical")
             ELSE commented
    ELSE enhanced_params

\* lines 485-524, for a result that is a JSON object (what the servers of
\* the repository answer)
enhance_parameters_with_dependencies(parameters, dependency_result, action) ==
    IF IsPyNone(dependency_result) \/ ~Get(dependency_result, "success", FALSE)
    THEN parameters
    ELSE LET result_data == Get(dependency_result, "result", <<>>)
         IN  IF action.server = "servicenow" /\ action.action = "create_record"
             THEN EnhanceCreateRecord(parameters, result_data)
             ELSE IF action.server = "servicenow" /\ action.action = "update_record"
             THEN EnhanceUpdateRecord(parameters, result_data)
             ELSE parameters

\* lines 485-524, for any result: "k in result_data" raises TypeError when
\* the result is null (lines 497, 505 and 518)
EnhanceOutcome(parameters, dependency_result, action) ==
    IF /\ ~IsPyNone(dependency_result)
       /\ Get(dependency_result, "success", FALSE)
       /\ IsJsonNull(Get(dependency_result, "result", <<>>))
       /\ action.server = "servicenow"
       /\ action.action \in {"create_record", "update_record"}
    THEN Raised
    ELSE Returned(enhance_parameters_with_dependencies(parameters, dependency_result, action))

\* Variant: no copy is made, the writes go to the caller's dict.
CallerParametersAliased(parameters, outcome) ==
    IF outcome.exc THEN parameters ELSE outcome.ret

\* line 489: the writes go to parameters.copy(), and the values written are
\* new strings: the caller's dict holds after the call what it held before
CallerParametersAfter(parameters, outcome) == parameters

----------------------------------------------------------------------------
(* Inputs of a run                                                         *)

\* AppConfig.mcp_servers: the registered servers
server_configs == {"virustotal", "servicenow", "cyberreason", "custom_rest"}

\* Values of "step": absent, or a positive integer
Steps == {None} \cup (1..MaxStep)

\* A reputation lookup, a ticket creation and a call to an unregistered server
LookupCall == [server |-> "virustotal", action |-> "ip_report",
               parameters |-> [ip |-> "192.168.1.100"]]
TicketCall == [server |-> "servicenow", action |-> "create_record",
               parameters |-> [type |-> "incident", summary |-> "Test",
                               description |-> "Suspicious login"]]
UnknownCall == [server |-> "splunk", action |-> "search",
                parameters |-> [query |-> "ip"]]

\* Condition texts of the proposed actions
RunConditions == {"threat_score > 70", "score > 70"}

MakeAction(step, call, depends_on, condition) ==
    [step |-> step, server |-> call.server, action |-> call.action,
     parameters |-> call.parameters, depends_on |-> depends_on, condition |-> condition]

\* The proposed actions: independent calls (a lookup without a condition,
\* with or without a step; a call to an unregistered server that carries a
\* condition text and no step) and ticket creations: one that depends on
\* the step before its own, for every step; one that depends on its own
\* step; one that depends on the step after its own; one for each
\* condition text, as step 2 depending on step 1.
ActionSet ==
    {MakeAction(s, LookupCall, None, NoCondition) : s \in Steps}
    \cup {MakeAction(None, UnknownCall, None, "threat_score > 70")}
    \cup {MakeAction(d + 1, TicketCall, d, NoCondition) : d \in 1..(MaxStep - 1)}
    \cup {MakeAction(1, TicketCall, 1, NoCondition), MakeAction(1, TicketCall, 2, NoCondition)}
    \cup {MakeAction(2, TicketCall, 1, c) : c \in RunConditions}

ActionLists == UNION {[1..n -> ActionSet] : n \in 0..MaxActions}

\* What the HTTP POST of call_server can produce: a response (status, body)
\* or an aiohttp.ClientError.
OkStatus == 200
ErrorStatus == 500

ReplyBodies(server) ==
    IF server = "virustotal"
    THEN {[threat_score |-> 40], [data |-> [threat_score |-> 85]]}
    ELSE {[record_id |-> "INC123"]}

Responses(server) ==
    {[status |-> OkStatus, body |-> b, text |-> ""] : b \in ReplyBodies(server)}
    \cup {[status |-> ErrorStatus, body |-> <<>>, text |-> "Internal Server Error"]}

----------------------------------------------------------------------------
(* EventProcessor.execute_actions                                          *)

VARIABLES
    actions,        \* analysis["determined_actions"]
    i,              \* position of the for loop in actions
    results,        \* the list that is returned
    action_results, \* results by step number, for dependency resolution
    pc,             \* "loop", "await" (call_server in flight), "returned", "raised",
                    \* "cancelled"
    enhanced,       \* enhanced_parameters of the call in flight
    calls,          \* the calls of mcp_client.call_server made by the run
    posts,          \* the HTTP POSTs issued by call_server
    evaluated,      \* the calls of evaluate_condition made by the run
    cancelled,      \* None, or the position of the call in flight when the caller cancelled
    probe,          \* a direct call of one method: its arguments and its outcome
    runs,           \* two runs on one EventProcessor: the locals of each
    ledgers,        \* two runs on one EventProcessor: the action_results dicts
    process,        \* a call of process_event: its circumstances and its analysis
    consumer,       \* a KafkaEventConsumer, its thread and the thread that stops it
    monitor         \* a BucketMonitor, its task, and the bucket it watches

runVars == <<actions, i, results, action_results, pc, enhanced, calls, posts, evaluated,
             cancelled>>

otherVars == <<runs, ledgers, process, consumer, monitor>>

vars == <<runVars, probe, otherVars>>

\* No direct call is being made.
NoProbe == [fn |-> "none"]

\* execute_actions is called directly, not from process_event.
NoProcess == [kind |-> "none"]

\* No KafkaEventConsumer has been constructed.
NoConsumer == [kind |-> "none"]

\* No BucketMonitor has been constructed.
NoMonitor == [kind |-> "none"]

Init ==
    /\ actions \in ActionLists
    /\ i = 1
    /\ results = <<>>
    /\ action_results = <<>>
    /\ pc = "loop"
    /\ enhanced = <<>>
    /\ calls = <<>>
    /\ posts = <<>>
    /\ evaluated = <<>>
    /\ cancelled = None
    /\ runs = <<>>
    /\ ledgers = <<>>
    /\ process = NoProcess
    /\ consumer = NoConsumer
    /\ monitor = NoMonitor
    /\ probe = NoProbe

\* Variant: the step is always the position in the output.
StepOfPosition(action, res) == Len(res) + 1

\* line 349: action.get("step", len(results) + 1)
StepOf(action, res) == IF action.step # None THEN action.step ELSE Len(res) + 1

\* line 359: action_results.get(depends_on)
Lookup(ledger, depends_on) ==
    IF depends_on \in DOMAIN ledger THEN ledger[depends_on] ELSE PyNone

\* Variant: a dependency is never taken as missing.
DependencyUnmetNever(action, ledger) == FALSE

\* lines 358-360: the action has a dependency that the ledger does not hold
DependencyUnmet(action, ledger) ==
    action.depends_on # None /\ IsPyNone(Lookup(ledger, action.depends_on))

\* Variant: the condition is consulted whether or not there is a dependency.
ConditionConsultedAlways(action) == action.condition # NoCondition

\* line 374: the condition is consulted only inside "if depends_on is not None"
ConditionConsulted(action) == action.depends_on # None /\ action.condition # NoCondition

\* The texts and payloads a run can give to evaluate_condition, and its
\* outcome for each of them (tabulated, so that it is computed once).
RunTexts == {a.condition : a \in ActionSet} \ {NoCondition}
RunBodies == UNION {ReplyBodies(s) : s \in server_configs}
ConditionTable ==
    [c \in RunTexts |->
        [b \in RunBodies |-> evaluate_condition(c, [success |-> TRUE, result |-> b])]]

\* line 374: self.evaluate_condition(condition, dependency_result), which
\* reads only "success" and "result" of the dependency result
EvaluateInRun(condition, dependency_result) ==
    IF /\ ~IsPyNone(dependency_result)
       /\ dependency_result.success
       /\ condition \in RunTexts
       /\ dependency_result.result \in RunBodies
    THEN ConditionTable[condition][dependency_result.result]
    ELSE evaluate_condition(condition, dependency_result)

\* Variant: an action with a dependency and no condition is not run.
ConditionBlocksWhenAbsent(action, ledger) ==
    /\ action.depends_on # None
    /\ \/ action.condition = NoCondition
       \/ ~EvaluateInRun(action.condition, Lookup(ledger, action.depends_on)).ret

\* line 374: condition and not self.evaluate_condition(condition, dependency_result)
ConditionBlocks(action, ledger) ==
    /\ ConditionConsulted(action)
    /\ ~EvaluateInRun(action.condition, Lookup(ledger, action.depends_on)).ret

\* lines 362-370
DependencySkipOutcome(step, action) ==
    [step |-> step, action |-> action, success |-> FALSE,
     error |-> "Dependency step " \o ToString(action.depends_on) \o " not found or failed",
     skipped |-> TRUE]

\* Variant: the skip record does not say which condition was not met.
ConditionSkipOutcomeAnonymous(step, action) ==
    [step |-> step, action |-> action, success |-> TRUE,
     result |-> [message |-> "Condition not met, step skipped"],
     skipped |-> TRUE, condition_evaluated |-> NoCondition]

\* lines 376-385
ConditionSkipOutcome(step, action) ==
    [step |-> step, action |-> action, success |-> TRUE,
     result |-> [message |-> "Condition '" \o action.condition \o "' not met, step skipped"],
     skipped |-> TRUE, condition_evaluated |-> action.condition]

\* lines 401-409
SuccessOutcome(step, action, result) ==
    [step |-> step, action |-> action, success |-> TRUE, result |-> result,
     dependency_used |-> (action.depends_on # None)]

\* lines 415-423
ErrorOutcome(step, action, error) ==
    [step |-> step, action |-> action, success |-> FALSE, error |-> error,
     dependency_used |-> (action.depends_on # None)]

\* lines 358-371: the dependency is not in the ledger
SkipDependency ==
    /\ pc = "loop" /\ i <= Len(actions)
    /\ DependencyUnmet(actions[i], action_results)
    /\ results' = Append(results, DependencySkipOutcome(StepOf(actions[i], results), actions[i]))
    /\ i' = i + 1
    /\ UNCHANGED <<probe, otherVars, cancelled, actions, action_results, pc, enhanced, calls, posts, evaluated>>

\* Variant: the skip record is stored for dependencies like a result.
SkipConditionStored ==
    /\ pc = "loop" /\ i <= Len(actions)
    /\ ~DependencyUnmet(actions[i], action_results)
    /\ ConditionBlocks(actions[i], action_results)
    /\ evaluated' = Append(evaluated, [index |-> i, condition |-> actions[i].condition])
    /\ results' = Append(results, ConditionSkipOutcome(StepOf(actions[i], results), actions[i]))
    /\ action_results' = With(action_results, StepOf(actions[i], results),
                              ConditionSkipOutcome(StepOf(actions[i], results), actions[i]))
    /\ i' = i + 1
    /\ UNCHANGED <<probe, otherVars, cancelled, actions, pc, enhanced, calls, posts>>

\* lines 373-386: the dependency succeeded and the condition is false
SkipCondition ==
    /\ pc = "loop" /\ i <= Len(actions)
    /\ ~DependencyUnmet(actions[i], action_results)
    /\ ConditionBlocks(actions[i], action_results)
    /\ evaluated' = Append(evaluated, [index |-> i, condition |-> actions[i].condition])
    /\ results' = Append(results, ConditionSkipOutcome(StepOf(actions[i], results), actions[i]))
    /\ i' = i + 1
    /\ UNCHANGED <<probe, otherVars, cancelled, actions, action_results, pc, enhanced, calls, posts>>

\* Variant: the exception leaves execute_actions.
RecordFailureReraise(error) ==
    /\ results' = results
    /\ i' = i
    /\ pc' = "raised"
    /\ UNCHANGED action_results

\* lines 414-426: except Exception: the failure is recorded, nothing is
\* stored for dependencies and the loop goes on
RecordFailure(error) ==
    /\ results' = Append(results, ErrorOutcome(StepOf(actions[i], results), actions[i], error))
    /\ i' = i + 1
    /\ pc' = "loop"
    /\ UNCHANGED action_results

\* lines 401-412: the result is recorded and stored for dependencies
RecordSuccess(result) ==
    LET action_result == SuccessOutcome(StepOf(actions[i], results), actions[i], result)
    IN  /\ results' = Append(results, action_result)
        /\ action_results' = With(action_results, action_result.step, action_result)
        /\ i' = i + 1
        /\ pc' = "loop"

\* lines 388-393: the action is to be executed
ShouldExecute ==
    /\ pc = "loop" /\ i <= Len(actions)
    /\ ~DependencyUnmet(actions[i], action_results)
    /\ ~ConditionBlocks(actions[i], action_results)

\* line 374: evaluate_condition is called when the condition is consulted
NoteEvaluation ==
    evaluated' = IF ConditionConsulted(actions[i])
                 THEN Append(evaluated, [index |-> i, condition |-> actions[i].condition])
                 ELSE evaluated

\* lines 391-393
EnhancedFor(k) ==
    enhance_parameters_with_dependencies(
        actions[k].parameters, Lookup(action_results, actions[k].depends_on), actions[k])

CallRecord(k, parameters) ==
    [index |-> k, server |-> actions[k].server, action |-> actions[k].action,
     parameters |-> parameters]

\* Variant: every server name is taken as configured.
IsConfiguredAny(server_name) == TRUE

\* mcp_client.py line 23: server_name in self.server_configs
IsConfigured(server_name) == server_name \in server_configs

\* lines 395-399 with mcp_client.py lines 23-24: call_server raises
\* ValueError for a server that is not configured, before any request
InvokeUnknownServer ==
    /\ ShouldExecute
    /\ ~IsConfigured(actions[i].server)
    /\ NoteEvaluation
    /\ calls' = Append(calls, CallRecord(i, EnhancedFor(i)))
    /\ RecordFailure("Unknown server: " \o actions[i].server)
    /\ UNCHANGED <<probe, otherVars, cancelled, actions, enhanced, posts>>

\* Variant: the call is started and the loop goes on without waiting for it.
StartInvokeNoWait ==
    /\ ShouldExecute
    /\ IsConfigured(actions[i].server)
    /\ NoteEvaluation
    /\ calls' = Append(calls, CallRecord(i, EnhancedFor(i)))
    /\ posts' = Append(posts, CallRecord(i, EnhancedFor(i)))
    /\ i' = i + 1
    /\ UNCHANGED <<probe, otherVars, cancelled, actions, results, action_results, pc, enhanced>>

\* lines 395-399 with mcp_client.py lines 26-40: call_server posts the
\* request and the run waits for the response
StartInvoke ==
    /\ ShouldExecute
    /\ IsConfigured(actions[i].server)
    /\ NoteEvaluation
    /\ enhanced' = EnhancedFor(i)
    /\ calls' = Append(calls, CallRecord(i, EnhancedFor(i)))
    /\ posts' = Append(posts, CallRecord(i, EnhancedFor(i)))
    /\ pc' = "await"
    /\ UNCHANGED <<probe, otherVars, cancelled, actions, i, results, action_results>>

\* mcp_client.py lines 41-45: the response arrives
HttpResponse ==
    /\ pc = "await"
    /\ \E r \in Responses(actions[i].server) :
          IF r.status = OkStatus
          THEN RecordSuccess(r.body)
          ELSE RecordFailure("Server " \o actions[i].server \o " returned "
                             \o ToString(r.status) \o ": " \o r.text)
    /\ enhanced' = <<>>
    /\ UNCHANGED <<probe, otherVars, cancelled, actions, calls, posts, evaluated>>

\* Variant: after a connection error the request is posted once more.
HttpClientErrorRetried ==
    /\ pc = "await"
    /\ Cardinality({p \in 1..Len(posts) : posts[p].index = i}) < 2
    /\ posts' = Append(posts, posts[Len(posts)])
    /\ UNCHANGED <<probe, otherVars, cancelled, actions, i, results, action_results, pc,
                    enhanced, calls, evaluated>>

\* mcp_client.py lines 47-48: the request fails with aiohttp.ClientError
HttpClientError ==
    /\ pc = "await"
    /\ RecordFailure("Failed to connect to " \o actions[i].server \o ": Connection refused")
    /\ enhanced' = <<>>
    /\ UNCHANGED <<probe, otherVars, cancelled, actions, calls, posts, evaluated>>

\* Variant: the cancellation is caught by the handler of line 414 like any
\* failure of the call, and the loop goes on.
CancelledErrorCaught ==
    RecordFailure("")

\* line 414: asyncio.CancelledError derives from BaseException (Python 3.8
\* and later, which the dependencies of the repository require), so "except
\* Exception" does not catch it and it leaves execute_actions
CancelledErrorPropagates ==
    /\ pc' = "cancelled"
    /\ UNCHANGED <<i, results, action_results>>

\* line 395: the caller cancels the run while it awaits call_server; the
\* await raises asyncio.CancelledError
Cancel ==
    /\ pc = "await"
    /\ cancelled' = i
    /\ CancelledErrorPropagates
    /\ enhanced' = <<>>
    /\ UNCHANGED <<probe, otherVars, actions, calls, posts, evaluated>>

\* line 428: return results
Return ==
    /\ pc = "loop" /\ i > Len(actions)
    /\ pc' = "returned"
    /\ UNCHANGED <<probe, otherVars, cancelled, actions, i, results, action_results, enhanced, calls, posts, evaluated>>

Next ==
    \/ SkipDependency
    \/ SkipCondition
    \/ InvokeUnknownServer
    \/ StartInvoke
    \/ HttpResponse
    \/ HttpClientError
    \/ Cancel
    \/ Return

Spec == Init /\ [][Next]_vars

----------------------------------------------------------------------------
(* Direct calls of evaluate_condition                                      *)

\* Condition texts given to the evaluator
EvalConditions ==
    {"threat_score > 70", "threat_score < 50", "threat_score == 85",
     "threat_score >= 70", "threat_score <= 70", "threat_score != 70",
     "threat_score > high", "threat_score >", "threat_score > 70 > 50",
     "score > 70", "foo bar", "",
     "severity high", "severity critical", "severity medium", "severity low",
     "Severity HIGH", "host Compromised", "if malicious",
     "threat_score > 55", "threat_score == 55", "threat_score < 58"}

\* Result payloads of a dependency
EvalBodies ==
    {[threat_score |-> 40], [threat_score |-> 70], [threat_score |-> 85],
     [data |-> [threat_score |-> 85]], [data |-> [record_id |-> "INC123"]],
     [malicious |-> 2, total |-> 5], [malicious |-> 17, total |-> 20],
     [malicious |-> 0, total |-> 0],
     [malicious |-> 11, total |-> 20], [malicious |-> 29, total |-> 50],
     [severity |-> "High"], [severity |-> "critical"], [severity |-> "low"],
     [status |-> "Compromised"], [status |-> "infected"], [status |-> "clean"],
     [reputation |-> "malicious"], [record_id |-> "INC123"],
     JsonNull}

\* Dependency results: a succeeded outcome with each payload, one without a
\* payload, a failed outcome, and None
EvalDependencyResults ==
    {[success |-> TRUE, result |-> b] : b \in EvalBodies}
    \cup {[success |-> TRUE], [success |-> FALSE, error |-> "Server virustotal returned 500: "],
          PyNone}

InitEval ==
    /\ probe \in {[fn |-> "evaluate_condition", condition |-> c, dependency_result |-> d,
                   called |-> FALSE, out |-> Returned(FALSE)] :
                     c \in EvalConditions, d \in EvalDependencyResults}
    /\ actions = <<>>
    /\ i = 1
    /\ results = <<>>
    /\ action_results = <<>>
    /\ pc = "idle"
    /\ enhanced = <<>>
    /\ calls = <<>>
    /\ posts = <<>>
    /\ evaluated = <<>>
    /\ cancelled = None
    /\ runs = <<>>
    /\ ledgers = <<>>
    /\ process = NoProcess
    /\ consumer = NoConsumer
    /\ monitor = NoMonitor

\* self.evaluate_condition(condition, dependency_result)
CallEvaluateCondition ==
    /\ probe.fn = "evaluate_condition" /\ ~probe.called
    /\ probe' = [probe EXCEPT !.called = TRUE,
                              !.out = evaluate_condition(probe.condition, probe.dependency_result)]
    /\ UNCHANGED <<runVars, otherVars>>

NextEval == CallEvaluateCondition

SpecEval == InitEval /\ [][NextEval]_vars

----------------------------------------------------------------------------
(* Direct calls of enhance_parameters_with_dependencies                    *)

\* How many times the enricher is called on the same arguments
EnhanceCalls == 2

\* Base parameter maps of the caller
EnhanceParameters ==
    {TicketCall.parameters,
     [type |-> "incident", summary |-> "Test"],
     [type |-> "incident", summary |-> "Test", description |-> "Suspicious login",
      priority |-> "5 - Planning", state |-> "New"],
     [sys_id |-> "INC123", state |-> "New", priority |-> "5 - Planning"],
     LookupCall.parameters}

\* The server and action of the step being enriched
EnhanceActions ==
    {[server |-> "servicenow", action |-> "create_record"],
     [server |-> "servicenow", action |-> "update_record"],
     [server |-> "servicenow", action |-> "get_record"],
     [server |-> "virustotal", action |-> "ip_report"]}

\* Scores at and next to the breakpoints of the priority tiers
BreakpointScores == {0, 30, 31, 60, 61, 80, 81, 100}

\* Dependency results: those given to the evaluator, and succeeded outcomes
\* with an endpoint status, with a full reputation report and with the
\* scores around the breakpoints
EnhanceDependencyResults ==
    EvalDependencyResults
    \cup {[success |-> TRUE, result |-> [status |-> "compromised"]],
          [success |-> TRUE,
           result |-> [threat_score |-> 85, malicious |-> 17, total |-> 20,
                       reputation |-> "malicious"]]}
    \cup {[success |-> TRUE, result |-> [threat_score |-> n]] : n \in BreakpointScores}

InitEnhance ==
    /\ probe \in {[fn |-> "enhance", base |-> p, parameters |-> p, dependency_result |-> d,
                   action |-> a, outs |-> <<>>] :
                     p \in EnhanceParameters, d \in EnhanceDependencyResults,
                     a \in EnhanceActions}
    /\ actions = <<>>
    /\ i = 1
    /\ results = <<>>
    /\ action_results = <<>>
    /\ pc = "idle"
    /\ enhanced = <<>>
    /\ calls = <<>>
    /\ posts = <<>>
    /\ evaluated = <<>>
    /\ cancelled = None
    /\ runs = <<>>
    /\ ledgers = <<>>
    /\ process = NoProcess
    /\ consumer = NoConsumer
    /\ monitor = NoMonitor

\* self.enhance_parameters_with_dependencies(parameters, dependency_result,
\* action), on the dict the caller holds
CallEnhance ==
    /\ probe.fn = "enhance" /\ Len(probe.outs) < EnhanceCalls
    /\ LET outcome == EnhanceOutcome(probe.parameters, probe.dependency_result, probe.action)
       IN  probe' = [probe EXCEPT !.outs = Append(@, outcome),
                                  !.parameters = CallerParametersAfter(@, outcome)]
    /\ UNCHANGED <<runVars, otherVars>>

NextEnhance == CallEnhance

SpecEnhance == InitEnhance /\ [][NextEnhance]_vars

----------------------------------------------------------------------------
(* Direct calls of MCPClient.call_server                                   *)

\* Outcome of call_server: it raised with a message, or it returned a body
CallFailed(message) == [exc |-> TRUE, ret |-> <<>>, error |-> message]
CallReturned(body) == [exc |-> FALSE, ret |-> body, error |-> ""]

\* mcp_client.py lines 20-48, given what the POST produces
call_server(server_name, reply) ==
    IF ~IsConfigured(server_name)
    THEN CallFailed("Unknown server: " \o server_name)
    ELSE IF reply.kind = "client_error"
    THEN CallFailed("Failed to connect to " \o server_name \o ": " \o reply.text)
    ELSE IF reply.status = OkStatus
    THEN CallReturned(reply.body)
    ELSE CallFailed("Server " \o server_name \o " returned " \o ToString(reply.status)
                    \o ": " \o reply.text)

\* HTTP statuses a server can answer with
CallStatuses == {200, 201, 202, 204, 400, 404, 500, 503}

\* What the POST produces: a response with a JSON body and its text, or an
\* aiohttp.ClientError
CallReplies ==
    {[kind |-> "response", status |-> st, body |-> b, text |-> "{...}"] :
        st \in CallStatuses, b \in {[record_id |-> "INC123"], [threat_score |-> 40]}}
    \cup {[kind |-> "client_error", text |-> "Connection refused"]}

InitCall ==
    /\ probe \in {[fn |-> "call_server", server_name |-> sv, reply |-> r, called |-> FALSE,
                   out |-> CallReturned(<<>>)] :
                     sv \in server_configs \cup {UnknownCall.server}, r \in CallReplies}
    /\ actions = <<>>
    /\ i = 1
    /\ results = <<>>
    /\ action_results = <<>>
    /\ pc = "idle"
    /\ enhanced = <<>>
    /\ calls = <<>>
    /\ posts = <<>>
    /\ evaluated = <<>>
    /\ cancelled = None
    /\ runs = <<>>
    /\ ledgers = <<>>
    /\ process = NoProcess
    /\ consumer = NoConsumer
    /\ monitor = NoMonitor

\* await self.mcp_client.call_server(server_name, action, parameters)
CallCallServer ==
    /\ probe.fn = "call_server" /\ ~probe.called
    /\ probe' = [probe EXCEPT !.called = TRUE,
                              !.out = call_server(probe.server_name, probe.reply)]
    /\ UNCHANGED <<runVars, otherVars>>

NextCall == CallCallServer

SpecCall == InitCall /\ [][NextCall]_vars

----------------------------------------------------------------------------
(* Two runs of execute_actions on the same EventProcessor, interleaved at   *)
(* the await of call_server                                                *)

\* Length of the action lists of the two runs
MaxPairActions == 2

PairRunIds == {1, 2}

\* The actions of the two runs: a reputation lookup as step 1 and a ticket
\* creation as step 2 that depends on step 1
PairActionSet ==
    {MakeAction(1, LookupCall, None, NoCondition),
     MakeAction(2, TicketCall, 1, "threat_score > 70")}

PairActionLists == UNION {[1..n -> PairActionSet] : n \in 0..MaxPairActions}

\* Variant: one dict on the processor, used by every run.
LedgerOwnerShared(r) == 1

\* line 346: action_results = {} is a local of the call, so each run reads
\* and writes the dict it created
LedgerOwner(r) == r

LedgerOf(r) == ledgers[LedgerOwner(r)]

\* The action at the head of the loop of run r
PairHead(r) == runs[r].actions[runs[r].i]

PairAtLoop(r) == runs[r].pc = "loop" /\ runs[r].i <= Len(runs[r].actions)

InitPair ==
    /\ runs \in [PairRunIds -> {[actions |-> l, i |-> 1, results |-> <<>>, pc |-> "loop",
                                 calls |-> <<>>] : l \in PairActionLists}]
    /\ ledgers = [r \in PairRunIds |-> <<>>]
    /\ process = NoProcess
    /\ consumer = NoConsumer
    /\ monitor = NoMonitor
    /\ actions = <<>>
    /\ i = 1
    /\ results = <<>>
    /\ action_results = <<>>
    /\ pc = "idle"
    /\ enhanced = <<>>
    /\ calls = <<>>
    /\ posts = <<>>
    /\ evaluated = <<>>
    /\ cancelled = None
    /\ probe = NoProbe

\* The run r appends an outcome and moves to the next action
PairAppend(r, outcome) ==
    runs' = [runs EXCEPT ![r].results = Append(@, outcome), ![r].i = @ + 1, ![r].pc = "loop"]

\* lines 358-371 in run r
PairSkipDependency(r) ==
    /\ PairAtLoop(r)
    /\ DependencyUnmet(PairHead(r), LedgerOf(r))
    /\ PairAppend(r, DependencySkipOutcome(StepOf(PairHead(r), runs[r].results), PairHead(r)))
    /\ UNCHANGED <<runVars, probe, consumer, monitor, process, ledgers>>

\* lines 373-386 in run r
PairSkipCondition(r) ==
    /\ PairAtLoop(r)
    /\ ~DependencyUnmet(PairHead(r), LedgerOf(r))
    /\ ConditionBlocks(PairHead(r), LedgerOf(r))
    /\ PairAppend(r, ConditionSkipOutcome(StepOf(PairHead(r), runs[r].results), PairHead(r)))
    /\ UNCHANGED <<runVars, probe, consumer, monitor, process, ledgers>>

\* lines 388-399 in run r: call_server is called and the run is suspended
\* at the await; the other run can proceed
PairStartInvoke(r) ==
    /\ PairAtLoop(r)
    /\ ~DependencyUnmet(PairHead(r), LedgerOf(r))
    /\ ~ConditionBlocks(PairHead(r), LedgerOf(r))
    /\ runs' = [runs EXCEPT
                  ![r].calls = Append(@, [index |-> runs[r].i,
                                          dependency_result |->
                                              Lookup(LedgerOf(r), PairHead(r).depends_on)]),
                  ![r].pc = "await"]
    /\ UNCHANGED <<runVars, probe, consumer, monitor, process, ledgers>>

\* lines 401-426 in run r: the call returns or raises
PairHttpResponse(r) ==
    /\ runs[r].pc = "await"
    /\ \E reply \in Responses(PairHead(r).server) :
          LET step == StepOf(PairHead(r), runs[r].results)
          IN  IF reply.status = OkStatus
              THEN /\ PairAppend(r, SuccessOutcome(step, PairHead(r), reply.body))
                   /\ ledgers' = [ledgers EXCEPT ![LedgerOwner(r)] =
                                     With(@, step, SuccessOutcome(step, PairHead(r), reply.body))]
              ELSE /\ PairAppend(r, ErrorOutcome(step, PairHead(r),
                                     "Server " \o PairHead(r).server \o " returned "
                                     \o ToString(reply.status) \o ": " \o reply.text))
                   /\ UNCHANGED ledgers
    /\ UNCHANGED <<runVars, probe, consumer, monitor, process>>

\* line 428 in run r
PairReturn(r) ==
    /\ runs[r].pc = "loop" /\ runs[r].i > Len(runs[r].actions)
    /\ runs' = [runs EXCEPT ![r].pc = "returned"]
    /\ UNCHANGED <<runVars, probe, consumer, monitor, process, ledgers>>

NextPair ==
    \E r \in PairRunIds :
        \/ PairSkipDependency(r)
        \/ PairSkipCondition(r)
        \/ PairStartInvoke(r)
        \/ PairHttpResponse(r)
        \/ PairReturn(r)

SpecPair == InitPair /\ [][NextPair]_vars

----------------------------------------------------------------------------
(* EventProcessor.process_event: analyze_with_ai, then execute_actions     *)

\* The action lists an AI provider proposes ("actions" of its response,
\* free JSON written by the model): the last one comes from a provider
\* that numbers its own steps 10 and 20
AIProposals ==
    {<<>>,
     <<LookupCall @@ [depends_on |-> None, condition |-> NoCondition],
       TicketCall @@ [depends_on |-> 1, condition |-> "threat_score > 70"]>>,
     <<UnknownCall @@ [depends_on |-> None, condition |-> NoCondition],
       TicketCall @@ [depends_on |-> 1, condition |-> NoCondition]>>,
     <<LookupCall @@ [depends_on |-> None, condition |-> NoCondition],
       TicketCall @@ [depends_on |-> 10, condition |-> NoCondition]>>}

\* The action lists the keyword rules give for an event and a prompt
\* (entries with server, action and parameters only)
RuleActionLists == {<<>>, <<LookupCall>>, <<LookupCall, TicketCall>>}

\* lines 74-101: the entries are numbered from 1 and returned under
\* "determined_actions"
convert_ai_response_to_analysis(ai_response) ==
    [determined_actions |->
        [k \in 1..Len(ai_response.actions) |->
            MakeAction(k, ai_response.actions[k], ai_response.actions[k].depends_on,
                       ai_response.actions[k].condition)],
     ai_model |-> "provider"]

\* lines 243-282: EventProcessor.fallback_analysis returns its entries
\* under "determined_actions"
fallback_analysis(rule_actions) ==
    [determined_actions |->
        [k \in 1..Len(rule_actions) |-> MakeAction(None, rule_actions[k], None, NoCondition)],
     ai_model |-> "rule-based-fallback"]

\* ai_provider.py lines 358-437: RuleBasedFallback.analyze_security_event
\* returns its entries under "actions"
RuleBasedFallback(rule_actions) ==
    [actions |->
        [k \in 1..Len(rule_actions) |-> MakeAction(None, rule_actions[k], None, NoCondition)],
     fallback_used |-> TRUE]

InitProcess ==
    /\ process \in {[kind |-> "process_event", provider |-> pv, ai_outcome |-> o,
                     fallback_to_rules |-> f, rule_actions |-> ra, analysis |-> <<>>] :
                       pv \in {"none", "unavailable", "available"},
                       o \in {[raised |-> TRUE, actions |-> <<>>]}
                             \cup {[raised |-> FALSE, actions |-> l] : l \in AIProposals},
                       f \in BOOLEAN, ra \in RuleActionLists}
    /\ actions = <<>>
    /\ i = 1
    /\ results = <<>>
    /\ action_results = <<>>
    /\ pc = "analyze"
    /\ enhanced = <<>>
    /\ calls = <<>>
    /\ posts = <<>>
    /\ evaluated = <<>>
    /\ cancelled = None
    /\ runs = <<>>
    /\ ledgers = <<>>
    /\ consumer = NoConsumer
    /\ monitor = NoMonitor
    /\ probe = NoProbe

\* What the steps of analyze_with_ai leave alone
AnalysisFrame ==
    UNCHANGED <<probe, runs, ledgers, consumer, monitor, actions, i, results, action_results, enhanced, calls,
                posts, evaluated, cancelled>>

\* lines 55-60: the provider is available and its analysis returns
AnalyzeWithProvider ==
    /\ pc = "analyze"
    /\ process.provider = "available" /\ ~process.ai_outcome.raised
    /\ process' = [process EXCEPT
                     !.analysis = convert_ai_response_to_analysis(process.ai_outcome)]
    /\ pc' = "execute"
    /\ AnalysisFrame

\* lines 61-64: there is no provider, or it is not available
AnalyzeWithoutProvider ==
    /\ pc = "analyze"
    /\ process.provider # "available"
    /\ process' = [process EXCEPT !.analysis = fallback_analysis(process.rule_actions)]
    /\ pc' = "execute"
    /\ AnalysisFrame

\* lines 66-72: the analysis of the provider raises
AnalyzeProviderRaises ==
    /\ pc = "analyze"
    /\ process.provider = "available" /\ process.ai_outcome.raised
    /\ IF process.fallback_to_rules
       THEN /\ process' = [process EXCEPT !.analysis = RuleBasedFallback(process.rule_actions)]
            /\ pc' = "execute"
       ELSE /\ pc' = "raised"
            /\ UNCHANGED process
    /\ AnalysisFrame

\* lines 38 and 348: execute_actions reads analysis["determined_actions"],
\* which raises KeyError when the analysis has no such key
BeginExecuteActions ==
    /\ pc = "execute"
    /\ IF "determined_actions" \in DOMAIN process.analysis
       THEN actions' = process.analysis.determined_actions /\ pc' = "loop"
       ELSE actions' = actions /\ pc' = "raised"
    /\ UNCHANGED <<probe, otherVars, i, results, action_results, enhanced, calls, posts,
                    evaluated, cancelled>>

NextProcess ==
    \/ AnalyzeWithProvider
    \/ AnalyzeWithoutProvider
    \/ AnalyzeProviderRaises
    \/ BeginExecuteActions
    \/ Next

SpecProcess == InitProcess /\ [][NextProcess]_vars

----------------------------------------------------------------------------
(* Vocabulary of the properties                                            *)

\* The status of an outcome record of execute_actions
IsSkipped(o) == "skipped" \in DOMAIN o /\ o.skipped
IsSucceeded(o) == o.success /\ ~IsSkipped(o)
IsFailed(o) == ~o.success /\ ~IsSkipped(o)

\* The two skip reasons
SkippedDependencyUnmet(o) ==
    IsSkipped(o) /\ "error" \in DOMAIN o /\ Contains(o.error, "Dependency step")
SkippedConditionNotMet(o) == IsSkipped(o) /\ "condition_evaluated" \in DOMAIN o

\* call_server / evaluate_condition has been called for the k-th action
InvokedFor(k) == \E c \in 1..Len(calls) : calls[c].index = k
EvaluatedFor(k) == \E e \in 1..Len(evaluated) : evaluated[e].index = k

\* The steps given in the input are all present and pairwise distinct
DistinctSteps ==
    /\ \A k \in 1..Len(actions) : actions[k].step # None
    /\ \A j, k \in 1..Len(actions) : j # k => actions[j].step # actions[k].step

\* Two actions of the input carry the same step
HasDuplicateSteps ==
    \E j, k \in 1..Len(actions) :
        j # k /\ actions[j].step # None /\ actions[j].step = actions[k].step

\* Some parameter value contains the text
ParametersMention(parameters, text) ==
    \E k \in DOMAIN parameters : Contains(parameters[k], text)

\* The two-action run: step 1 a reputation lookup, step 2 a ticket creation
\* that depends on step 1 under the given condition
ScoreScenario(condition) ==
    <<MakeAction(1, LookupCall, None, NoCondition), MakeAction(2, TicketCall, 1, condition)>>

\* The run of ScoreScenario(condition) has returned and step 1 succeeded
\* with the given score
ScenarioRan(condition, score) ==
    /\ pc = "returned"
    /\ actions = ScoreScenario(condition)
    /\ IsSucceeded(results[1])
    /\ ThreatScoreOf(results[1].result) = Exact(score)

----------------------------------------------------------------------------
(* Properties                                                              *)

\* C1: every action without depends_on is attempted: call_server is called
\* for it and its outcome is never skipped, whatever happened to earlier
\* actions and whether or not it carries a condition; when the run returns,
\* every such action has its outcome.
C1_IndependentActionsAttempted ==
    \A k \in 1..Len(actions) :
        actions[k].depends_on = None =>
            /\ k <= Len(results) => InvokedFor(k) /\ ~IsSkipped(results[k])
            /\ pc = "returned" => k <= Len(results)

\* An action without depends_on that carries a condition is called after
\* the first action of the run failed.
C1_Witness ==
    /\ pc = "returned" /\ Len(results) >= 2
    /\ IsFailed(results[1])
    /\ \E k \in 2..Len(results) :
          /\ actions[k].depends_on = None /\ actions[k].condition # NoCondition
          /\ InvokedFor(k) /\ ~IsSkipped(results[k])

\* C2: an action whose depends_on names a step that has a failed or skipped
\* outcome earlier in the run is skipped for an unmet dependency, and
\* neither evaluate_condition nor call_server is called for it.
C2_FailedDependencySkips ==
    \A k \in 1..Len(actions) :
        (/\ actions[k].depends_on # None
         /\ \E j \in 1..Len(results) :
               /\ j < k
               /\ results[j].step = actions[k].depends_on
               /\ (IsFailed(results[j]) \/ IsSkipped(results[j])))
        => /\ ~InvokedFor(k)
           /\ ~EvaluatedFor(k)
           /\ k <= Len(results) => SkippedDependencyUnmet(results[k])

\* The dependency of the action at the head of the loop succeeded in this
\* run and its condition evaluates to false.
ConditionFalseAtHead ==
    /\ pc = "loop" /\ i <= Len(actions)
    /\ actions[i].depends_on # None
    /\ actions[i].depends_on \in DOMAIN action_results
    /\ IsSucceeded(action_results[actions[i].depends_on])
    /\ actions[i].condition # NoCondition
    /\ ~evaluate_condition(actions[i].condition, action_results[actions[i].depends_on]).ret

C4_OrderPreserved ==
    /\ Len(results) <= Len(actions)
    /\ pc = "returned" => Len(results) = Len(actions)
    /\ DistinctSteps =>
          \A k \in 1..Len(results) :
              results[k].step = actions[k].step /\ results[k].action = actions[k]

\* A run with steps 2, 1 in that order returned, its first call failed and
\* its second succeeded.
C4_Witness ==
    /\ pc = "returned" /\ DistinctSteps /\ Len(actions) = 2
    /\ actions[1].step = 2 /\ actions[2].step = 1
    /\ IsFailed(results[1]) /\ IsSucceeded(results[2])

\* C5: a failure of call_server never leaves execute_actions: the run
\* returns one outcome per action, an action for which call_server was
\* called is recorded as failed or succeeded, and every later action
\* without a dependency is still called.
C5_FailureContained ==
    /\ pc # "raised"
    /\ pc = "returned" => Len(results) = Len(actions)
    /\ \A k \in 1..Len(results) :
          InvokedFor(k) => IsFailed(results[k]) \/ IsSucceeded(results[k])
    /\ \A k \in 1..Len(results) :
          IsFailed(results[k]) =>
              \A j \in (k + 1)..Len(results) : actions[j].depends_on = None => InvokedFor(j)

\* The first call of a run failed with a server error and the second
\* action, which does not depend on it, succeeded.
C5_Witness ==
    /\ pc = "returned" /\ Len(results) >= 2
    /\ IsFailed(results[1]) /\ Contains(results[1].error, "returned 500")
    /\ actions[2].depends_on = None /\ IsSucceeded(results[2])

\* C6: an action list with two actions of the same step is rejected before
\* any call: nothing is invoked, no outcome is recorded, nothing is returned.
C6_DuplicateStepsRejected ==
    HasDuplicateSteps => calls = <<>> /\ results = <<>> /\ pc # "returned"

\* C7 as stated: with the condition "score > 70" and a score of 40 from
\* step 1, step 2 is skipped with a reason that mentions the condition and
\* call_server is called once.
C7_ScoreConditionSkips ==
    ScenarioRan("score > 70", 40) =>
        /\ SkippedConditionNotMet(results[2])
        /\ Contains(results[2].result.message, "score > 70")
        /\ Len(calls) = 1

\* C7 amended: the same with the condition "threat_score > 70", the field
\* name evaluate_condition recognises.
C7_ThreatScoreConditionSkips ==
    ScenarioRan("threat_score > 70", 40) =>
        /\ SkippedConditionNotMet(results[2])
        /\ Contains(results[2].result.message, "threat_score > 70")
        /\ Len(calls) = 1

\* The two-action run returned with a score of 40 and step 2 skipped.
C7_Witness ==
    /\ ScenarioRan("threat_score > 70", 40)
    /\ SkippedConditionNotMet(results[2])

\* C8: when step 1 succeeds with a score of 85, call_server is called for
\* step 2 and the parameters sent contain the score that evaluate_condition
\* compared.
C8_EnrichedWithScore ==
    ScenarioRan("threat_score > 70", 85) =>
        /\ InvokedFor(2)
        /\ \A c \in 1..Len(calls) :
              calls[c].index = 2 => ParametersMention(calls[c].parameters, ToString(85))

\* The condition text has none of the keywords evaluate_condition looks for.
Unrecognized(condition) ==
    /\ ~Contains(condition, "threat_score")
    /\ ~Contains(condition, "severity")
    /\ ~Contains(Lower(condition), "compromised")
    /\ ~Contains(Lower(condition), "malicious")

\* evaluate_condition has been called directly
EvaluateCalled == probe.fn = "evaluate_condition" /\ probe.called

\* C9: for a succeeded dependency, evaluate_condition returns true for
\* every condition text of no recognised shape.
C9_FailOpen ==
    (/\ EvaluateCalled
     /\ ~IsPyNone(probe.dependency_result)
     /\ Get(probe.dependency_result, "success", FALSE)
     /\ Unrecognized(probe.condition))
    => ~probe.out.exc /\ probe.out.ret = TRUE

\* "foo bar" was evaluated against a succeeded dependency with a score.
C9_Witness ==
    /\ EvaluateCalled
    /\ probe.condition = "foo bar"
    /\ probe.dependency_result = [success |-> TRUE, result |-> [threat_score |-> 40]]
    /\ probe.out.ret = TRUE

\* C10: evaluate_condition never raises: it returns a boolean for every
\* condition and dependency result, and false whenever its body raised
\* (an unparsable threshold included).
C10_NeverRaises ==
    EvaluateCalled =>
        /\ ~probe.out.exc
        /\ probe.out.ret \in BOOLEAN
        /\ EvaluateConditionBody(probe.condition, probe.dependency_result).exc
              => probe.out.ret = FALSE

\* "threat_score >= 70" (threshold text "= 70") was evaluated against a
\* score of 85 and gave false.
C10_Witness ==
    /\ EvaluateCalled
    /\ probe.condition = "threat_score >= 70"
    /\ probe.dependency_result = [success |-> TRUE, result |-> [threat_score |-> 85]]
    /\ ~IsNumeral(ThresholdText(probe.condition, ">"))
    /\ ~probe.out.exc /\ probe.out.ret = FALSE

\* The enricher has been called directly k times and returned each time
EnhanceReturned(k) ==
    /\ probe.fn = "enhance" /\ Len(probe.outs) >= k
    /\ \A c \in 1..k : ~probe.outs[c].exc

EnrichedKeys == {"description", "priority", "additional_comments", "state"}

\* C12: the effective parameters have every key of the base parameters, and
\* a key that was added or whose value differs is one of description,
\* priority, additional_comments and state.
C12_EnrichmentKeepsKeys ==
    EnhanceReturned(1) =>
        LET effective == probe.outs[1].ret
        IN  /\ DOMAIN probe.base \subseteq DOMAIN effective
            /\ \A k \in DOMAIN effective :
                  (k \notin DOMAIN probe.base \/ effective[k] # probe.base[k])
                      => k \in EnrichedKeys

\* A ticket creation that carried its own priority was enriched with a
\* score of 85: the priority is overridden, a key is kept as it was.
C12_Witness ==
    /\ EnhanceReturned(1)
    /\ probe.action.action = "create_record"
    /\ {"summary", "state", "priority"} \subseteq DOMAIN probe.base
    /\ probe.base.priority = "5 - Planning"
    /\ probe.dependency_result = [success |-> TRUE, result |-> [threat_score |-> 85]]
    /\ probe.outs[1].ret.priority = "1 - Critical"
    /\ probe.outs[1].ret.summary = probe.base.summary
    /\ probe.outs[1].ret.state = probe.base.state

\* C13: every outcome record has one status; it carries a result payload
\* exactly when it is succeeded and an error message exactly when it is
\* failed (so a skipped record carries neither).
C13_PayloadMatchesStatus ==
    \A k \in 1..Len(results) :
        /\ Cardinality({st \in {"succeeded", "failed", "skipped"} :
                           \/ st = "succeeded" /\ IsSucceeded(results[k])
                           \/ st = "failed" /\ IsFailed(results[k])
                           \/ st = "skipped" /\ IsSkipped(results[k])}) = 1
        /\ "result" \in DOMAIN results[k] <=> IsSucceeded(results[k])
        /\ "error" \in DOMAIN results[k] <=> IsFailed(results[k])

\* C14: no request is ever posted for a server that is not registered; the
\* action is recorded as failed with the message "Unknown server: <name>",
\* and the run goes on: every later action without a dependency is called
\* and the run returns one outcome per action.
C14_UnknownServerFailsLocally ==
    /\ \A p \in 1..Len(posts) : posts[p].server \in server_configs
    /\ \A k \in 1..Len(results) :
          (actions[k].server \notin server_configs /\ InvokedFor(k)) =>
              /\ IsFailed(results[k])
              /\ results[k].error = "Unknown server: " \o actions[k].server
              /\ \A j \in (k + 1)..Len(results) : actions[j].depends_on = None => InvokedFor(j)
    /\ pc # "raised"
    /\ pc = "returned" => Len(results) = Len(actions)

\* The first action of a run named the server "splunk": it failed without
\* a request, and the lookup after it was posted and succeeded.
C14_Witness ==
    /\ pc = "returned" /\ Len(results) >= 2
    /\ actions[1].server = "splunk" /\ InvokedFor(1)
    /\ results[1].error = "Unknown server: splunk"
    /\ IsSucceeded(results[2])
    /\ Len(posts) = 1 /\ posts[1].index = 2

\* call_server has been called directly for a registered server
RegisteredServerCalled ==
    probe.fn = "call_server" /\ probe.called /\ probe.server_name \in server_configs

\* The POST was answered with a 2xx status
Is2xx(reply) == reply.kind = "response" /\ reply.status \in 200..299

\* C15: call_server to a registered server returns the response body
\* exactly when the status is 2xx; any other response and a connection
\* error are raised as a failure whose message names the server (and the
\* status, when there is one).
C15_BodyExactlyOn2xx ==
    RegisteredServerCalled =>
        IF Is2xx(probe.reply)
        THEN ~probe.out.exc /\ probe.out.ret = probe.reply.body
        ELSE /\ probe.out.exc
             /\ Contains(probe.out.error, probe.server_name)
             /\ probe.reply.kind = "response"
                    => Contains(probe.out.error, ToString(probe.reply.status))

\* C16: once the caller has cancelled the run during the call of the action
\* at some position, call_server is never called for an action after that
\* position: every call of the run is for an action up to it.
C16_NoInvocationAfterCancel ==
    cancelled # None =>
        /\ \A c \in 1..Len(calls) : calls[c].index <= cancelled
        /\ Len(results) < cancelled
        /\ pc # "returned"

\* The run was cancelled during its first call, and an action without a
\* dependency was still to come.
C16_Witness ==
    /\ cancelled = 1 /\ pc = "cancelled"
    /\ Len(actions) >= 2 /\ actions[2].depends_on = None
    /\ Len(calls) = 1 /\ calls[1].index = 1

\* C17: in each of two interleaved runs, the dict the run looks its
\* dependencies up in holds only outcomes of that run, and every call made
\* for an action with depends_on used the succeeded outcome of an earlier
\* action of the same run.
C17_RunsShareNoLedger ==
    \A r \in PairRunIds :
        /\ \A s \in DOMAIN LedgerOf(r) :
              \E j \in 1..Len(runs[r].results) :
                  runs[r].results[j] = LedgerOf(r)[s] /\ IsSucceeded(runs[r].results[j])
        /\ \A c \in 1..Len(runs[r].calls) :
              runs[r].actions[runs[r].calls[c].index].depends_on # None =>
                  \E j \in 1..(runs[r].calls[c].index - 1) :
                      /\ IsSucceeded(runs[r].results[j])
                      /\ runs[r].results[j] = runs[r].calls[c].dependency_result

\* Step 1 succeeded in the first run while the second run, which has the
\* dependent ticket creation but no succeeded step 1 of its own, skipped it
\* as dependency unmet.
C17_Witness ==
    /\ runs # <<>>
    /\ Len(runs[1].results) >= 1 /\ IsSucceeded(runs[1].results[1])
    /\ runs[1].results[1].step = 1
    /\ runs[1].pc = "await"
    /\ Len(runs[2].results) = 2
    /\ IsFailed(runs[2].results[1])
    /\ SkippedDependencyUnmet(runs[2].results[2])
    /\ runs[2].calls[1].index = 1 /\ Len(runs[2].calls) = 1

\* process_event was called with a provider that is available and whose
\* analysis raises, with fallback_to_rules enabled
ProviderFailsWithFallback ==
    /\ process.kind = "process_event"
    /\ process.provider = "available" /\ process.ai_outcome.raised
    /\ process.fallback_to_rules

\* C18: when the provider is available, its analysis raises and
\* fallback_to_rules is enabled, process_event does not raise, and when it
\* returns, its results are the outcomes of the actions of the rule-based
\* analysis, one for each.
C18_FallbackCompletes ==
    ProviderFailsWithFallback =>
        /\ pc # "raised"
        /\ pc = "returned" =>
              /\ Len(results) = Len(process.rule_actions)
              /\ \A k \in 1..Len(results) :
                    results[k].action.server = process.rule_actions[k].server

\* The positions of the succeeded outcomes with the given step
SucceededAt(step) ==
    {k \in 1..Len(results) : IsSucceeded(results[k]) /\ results[k].step = step}

\* C19: at every point of a run the ledger holds, for each step that has a
\* succeeded outcome, the latest succeeded outcome of that step and nothing
\* else: a failed outcome and a skip of either kind never add or replace
\* an entry.
C19_LedgerHoldsSuccessesOnly ==
    /\ DOMAIN action_results = {s \in 1..(MaxActions + MaxStep) : SucceededAt(s) # {}}
    /\ \A s \in DOMAIN action_results :
          /\ IsSucceeded(action_results[s])
          /\ \E k \in SucceededAt(s) :
                /\ action_results[s] = results[k]
                /\ InvokedFor(k)
                /\ \A j \in SucceededAt(s) : j <= k

\* Step 1 succeeded, then a second action with step 1 failed and a
\* dependent step was skipped for its condition: the ledger still holds
\* the succeeded outcome of step 1 and only that.
C19_Witness ==
    /\ Len(results) = 3
    /\ IsSucceeded(results[1]) /\ results[1].step = 1
    /\ IsFailed(results[2]) /\ results[2].step = 1
    /\ SkippedConditionNotMet(results[3]) /\ results[3].step = 2
    /\ DOMAIN action_results = {1}
    /\ action_results[1] = results[1]

\* A succeeded outcome of the step was recorded before position k
SucceededBefore(k, step) == \E j \in SucceededAt(step) : j < k

\* C20: call_server is called for an action with depends_on = s only if a
\* succeeded outcome of step s was recorded before it in the run; an
\* action whose depends_on has no succeeded outcome before it (a later
\* step, its own step, no step) is skipped as dependency unmet, without
\* evaluate_condition or call_server, whatever happens afterwards.
C20_InvokedOnlyAfterSuccess ==
    \A k \in 1..Len(actions) :
        actions[k].depends_on # None =>
            /\ InvokedFor(k) => SucceededBefore(k, actions[k].depends_on)
            /\ (k <= Len(results) /\ ~SucceededBefore(k, actions[k].depends_on)) =>
                  /\ SkippedDependencyUnmet(results[k])
                  /\ ~InvokedFor(k)
                  /\ ~EvaluatedFor(k)

\* The first action depends on step 2, which is the second action: it was
\* skipped as dependency unmet and step 2 then succeeded.
C20_Witness ==
    /\ pc = "returned" /\ Len(results) >= 2
    /\ actions[1].depends_on = 2 /\ actions[2].step = 2
    /\ SkippedDependencyUnmet(results[1]) /\ ~InvokedFor(1)
    /\ IsSucceeded(results[2]) /\ results[2].step = 2

\* Conditions of the form "threat_score OP T": the text, OP and T
ThresholdForms ==
    {[text |-> "threat_score > 70", op |-> ">", threshold |-> 70],
     [text |-> "threat_score < 50", op |-> "<", threshold |-> 50],
     [text |-> "threat_score == 85", op |-> "==", threshold |-> 85],
     [text |-> "threat_score > 55", op |-> ">", threshold |-> 55],
     [text |-> "threat_score == 55", op |-> "==", threshold |-> 55],
     [text |-> "threat_score < 58", op |-> "<", threshold |-> 58]}

\* The result carries a threat score in one of the three places
HasScore(b) ==
    \/ "threat_score" \in DOMAIN b
    \/ "data" \in DOMAIN b /\ "threat_score" \in DOMAIN b["data"]
    \/ "malicious" \in DOMAIN b /\ "total" \in DOMAIN b

\* The threat score as a number: from the result, from its nested data, or
\* 100 * malicious / total (0 when total is 0)
ScoreOf(b) ==
    IF "threat_score" \in DOMAIN b THEN b["threat_score"]
    ELSE IF "data" \in DOMAIN b /\ "threat_score" \in DOMAIN b["data"]
         THEN b["data"]["threat_score"]
    ELSE IF b["total"] = 0 THEN 0
    ELSE (100 * b["malicious"]) \div b["total"]

\* The truth value of (score OP T)
Compare(op, score, threshold) ==
    IF op = ">" THEN score > threshold
    ELSE IF op = "<" THEN score < threshold
    ELSE score = threshold

\* C23: for a succeeded dependency whose result carries a threat score and
\* a condition "threat_score OP T", evaluate_condition returns the truth
\* value of (score OP T).
C23_ThresholdComparisonExact ==
    (/\ EvaluateCalled
     /\ ~IsPyNone(probe.dependency_result)
     /\ Get(probe.dependency_result, "success", FALSE)
     /\ "result" \in DOMAIN probe.dependency_result
     /\ ~IsJsonNull(probe.dependency_result.result)
     /\ HasScore(probe.dependency_result.result))
    => \A f \in ThresholdForms :
          probe.condition = f.text =>
              probe.out.ret = Compare(f.op, ScoreOf(probe.dependency_result.result),
                                      f.threshold)

\* The calls of call_server whose outcome is not yet recorded
InFlight == {c \in 1..Len(calls) : calls[c].index > Len(results)}

\* C21: the actions are handled one at a time in list order: the outcomes
\* of all actions before the one being examined are recorded, each at the
\* position of its action; at most one call of call_server is in flight,
\* and that only while the run waits for it; the calls are made in the
\* order of their actions.
C21_OneAtATimeInOrder ==
    /\ Len(results) = i - 1
    /\ \A k \in 1..Len(results) : results[k].action = actions[k]
    /\ Cardinality(InFlight) <= 1
    /\ pc \in {"loop", "returned"} => InFlight = {}
    /\ \A c, d \in 1..Len(calls) : c < d => calls[c].index < calls[d].index

\* The third call of a run is in flight after the outcomes of the first
\* two were recorded.
C21_Witness ==
    /\ pc = "await" /\ i = 3
    /\ Len(calls) = 3 /\ InFlight = {3}
    /\ Len(results) = 2 /\ ~IsSkipped(results[1]) /\ ~IsSkipped(results[2])

\* The numbers of calls of call_server and of HTTP POSTs made for the k-th
\* action
CallsFor(k) == Cardinality({c \in 1..Len(calls) : calls[c].index = k})
PostsFor(k) == Cardinality({p \in 1..Len(posts) : posts[p].index = k})

CarriesThreatScore(b) ==
    \/ "threat_score" \in DOMAIN b
    \/ "data" \in DOMAIN b /\ "threat_score" \in DOMAIN b["data"]

\* The priority tier of a score: above 80 critical, above 60 high, above 30
\* medium, otherwise low
TierOf(score) ==
    IF score > 80 THEN "1 - Critical"
    ELSE IF score > 60 THEN "2 - High"
    ELSE IF score > 30 THEN "3 - Medium"
    ELSE "4 - Low"

\* A ticket creation was enriched from a succeeded dependency whose result
\* carries a threat score
TicketEnrichedWithScore ==
    /\ EnhanceReturned(1)
    /\ probe.action = [server |-> "servicenow", action |-> "create_record"]
    /\ ~IsPyNone(probe.dependency_result)
    /\ Get(probe.dependency_result, "success", FALSE)
    /\ "result" \in DOMAIN probe.dependency_result
    /\ ~IsJsonNull(probe.dependency_result.result)
    /\ CarriesThreatScore(probe.dependency_result.result)

\* C24: for a ticket creation with a succeeded dependency that carries a
\* score, the effective parameters have the priority tier of the score:
\* critical above 80, high above 60, medium above 30, low otherwise (80, 60
\* and 30 in the lower tier).
C24_PriorityTierFromScore ==
    TicketEnrichedWithScore =>
        /\ "priority" \in DOMAIN probe.outs[1].ret
        /\ probe.outs[1].ret.priority = TierOf(ScoreOf(probe.dependency_result.result))

RunsProviderActions ==
    /\ process.kind = "process_event"
    /\ process.provider = "available" /\ ~process.ai_outcome.raised
    /\ pc \notin {"analyze", "execute"}

\* C26: the action list that execute_actions gets on the provider path has
\* the steps 1..n in list order, and every depends_on in it is the
\* position of an action of the list.
C26_StepsAndDependenciesArePositions ==
    RunsProviderActions =>
        /\ Len(actions) = Len(process.ai_outcome.actions)
        /\ \A k \in 1..Len(actions) :
              /\ actions[k].step = k
              /\ actions[k].depends_on # None => actions[k].depends_on \in 1..Len(actions)

----------------------------------------------------------------------------
(* KafkaEventConsumer: the consumer thread and the thread that stops it    *)

\* time.sleep(10) between two events (line 76), in seconds
SleepSeconds == 10

\* consumer_thread.join(timeout=5) (line 29), in seconds
JoinTimeout == 5

\* The step of the clock, in seconds: both waits are multiples of it
TickSeconds == 5

\* len(mock_events)
MockEvents == 3

\* The calls of the event handler that are followed
MaxHandled == 3

\* __init__ (lines 12-14), with the two threads that will use the object
InitConsumer ==
    /\ consumer = [kind |-> "kafka",
                   consuming |-> FALSE,
                   thread |-> "none",      \* position of _consume_loop
                   sleep_left |-> 0,
                   event_index |-> 0,
                   handled |-> 0,          \* calls of event_handler so far
                   stopper |-> "idle",     \* position of stop_consuming
                   join_left |-> 0]
    /\ actions = <<>>
    /\ i = 1
    /\ results = <<>>
    /\ action_results = <<>>
    /\ pc = "none"
    /\ enhanced = <<>>
    /\ calls = <<>>
    /\ posts = <<>>
    /\ evaluated = <<>>
    /\ cancelled = None
    /\ runs = <<>>
    /\ ledgers = <<>>
    /\ process = NoProcess
    /\ monitor = NoMonitor
    /\ probe = NoProbe

ConsumerFrame == UNCHANGED <<runVars, probe, runs, ledgers, process, monitor>>

\* start_consuming (lines 16-24): the flag is set and the thread started
StartConsuming ==
    /\ consumer.thread = "none" /\ consumer.stopper = "idle"
    /\ consumer' = [consumer EXCEPT !.consuming = TRUE, !.thread = "test"]
    /\ ConsumerFrame

\* line 73: while self.consuming, then time.sleep(10) begins (line 76)
ConsumeTest ==
    /\ consumer.thread = "test"
    /\ consumer' = IF consumer.consuming
                   THEN [consumer EXCEPT !.thread = "sleeping", !.sleep_left = SleepSeconds]
                   ELSE [consumer EXCEPT !.thread = "finished"]
    /\ ConsumerFrame

\* Time passes for the sleeping thread and for the joining thread alike;
\* a wait that has run out ends before more time passes.
Tick ==
    /\ consumer.thread = "sleeping" \/ consumer.stopper = "joining"
    /\ consumer.thread = "sleeping" => consumer.sleep_left > 0
    /\ consumer.stopper = "joining" => consumer.join_left > 0
    /\ consumer' = [consumer EXCEPT
                       !.sleep_left = IF consumer.thread = "sleeping"
                                      THEN @ - TickSeconds ELSE @,
                       !.join_left = IF consumer.stopper = "joining"
                                     THEN @ - TickSeconds ELSE @]
    /\ ConsumerFrame

\* line 76: time.sleep(10) returns
ConsumeWake ==
    /\ consumer.thread = "sleeping" /\ consumer.sleep_left = 0
    /\ consumer' = [consumer EXCEPT !.thread = "woken"]
    /\ ConsumerFrame

\* lines 78-83: the next mock event is handed to event_handler; the flag
\* is not read again between the sleep and the call
ConsumeCallHandler ==
    /\ consumer.thread = "woken"
    /\ consumer.handled < MaxHandled
    /\ consumer' = IF consumer.event_index < MockEvents
                   THEN [consumer EXCEPT !.thread = "handling", !.handled = @ + 1]
                   ELSE [consumer EXCEPT !.thread = "test"]
    /\ ConsumerFrame

\* lines 83-84: event_handler returns and the index advances
ConsumeHandlerReturns ==
    /\ consumer.thread = "handling"
    /\ consumer' = [consumer EXCEPT !.thread = "test",
                                    !.event_index = (@ + 1) % MockEvents]
    /\ ConsumerFrame

\* lines 86-88: event_handler raises; the loop prints and breaks
ConsumeHandlerRaises ==
    /\ consumer.thread = "handling"
    /\ consumer' = [consumer EXCEPT !.thread = "finished"]
    /\ ConsumerFrame

\* stop_consuming (lines 26-30): the flag is cleared and, when a thread
\* was started, joined for at most five seconds
StopConsuming ==
    /\ consumer.stopper = "idle"
    /\ consumer' = IF consumer.thread = "none"
                   THEN [consumer EXCEPT !.consuming = FALSE, !.stopper = "returned"]
                   ELSE [consumer EXCEPT !.consuming = FALSE, !.stopper = "joining",
                                         !.join_left = JoinTimeout]
    /\ ConsumerFrame

\* line 29: the thread has ended, join returns
JoinReturns ==
    /\ consumer.stopper = "joining" /\ consumer.thread = "finished"
    /\ consumer' = [consumer EXCEPT !.stopper = "returned"]
    /\ ConsumerFrame

\* line 29: the five seconds are over and the thread is still alive;
\* join returns all the same
JoinTimesOut ==
    /\ consumer.stopper = "joining" /\ consumer.thread # "finished"
    /\ consumer.join_left = 0
    /\ consumer' = [consumer EXCEPT !.stopper = "returned"]
    /\ ConsumerFrame

NextConsumer ==
    \/ StartConsuming
    \/ ConsumeTest
    \/ Tick
    \/ ConsumeWake
    \/ ConsumeCallHandler
    \/ ConsumeHandlerReturns
    \/ ConsumeHandlerRaises
    \/ StopConsuming
    \/ JoinReturns
    \/ JoinTimesOut

SpecConsumer == InitConsumer /\ [][NextConsumer]_vars

\* C27: once stop_consuming has returned, the consumer makes no further
\* call of the event handler.
C27_NoHandlerCallAfterStop ==
    [][consumer.stopper = "returned" => consumer'.handled = consumer.handled]_vars

----------------------------------------------------------------------------
(* BucketMonitor: the monitor task, the task that starts and stops it, and *)
(* the bucket                                                              *)

\* The objects that arrive in the unprocessed folder, by key; S3 lists them
\* in key order
MaxFiles == 2

FileKeys == 1..MaxFiles

\* The events in the largest file
MaxEvents == 2

\* len(events) of the file with the given key: the first file is the largest
EventsIn(key) == IF key = 1 THEN MaxEvents ELSE 1

\* The ETags of the objects: S3 gives objects of equal content equal ETags
ETags == {"etag-1", "etag-2"}

\* The keys of a set in listing order (list_objects_v2 returns them sorted)
RECURSIVE InKeyOrder(_)
InKeyOrder(keys) ==
    IF keys = {} THEN <<>>
    ELSE LET least == CHOOSE k \in keys : \A j \in keys : k <= j
         IN  <<least>> \o InKeyOrder(keys \ {least})

\* __init__ (lines 18-31) with an empty unprocessed folder; update_callback
\* is None
InitMonitor ==
    /\ \E etag \in [FileKeys -> ETags] :
         monitor = [kind |-> "bucket",
                    etag |-> etag,
                    arrived |-> {},            \* keys uploaded to the bucket so far
                    unprocessed |-> {},        \* keys in the unprocessed folder
                    processed_folder |-> {},   \* what move_to_processed moved
                    is_running |-> FALSE,
                    processed_files |-> {},
                    task |-> "none",           \* position of the monitor task
                    new_files |-> <<>>,        \* what the for loop of line 132 still has
                    events_done |-> 0,         \* len(file_results)
                    completed |-> {},          \* _process_single_file returned
                    failed |-> {},             \* _process_single_file raised
                    passed_marked |-> {},      \* processed with the etag already marked
                    interrupted |-> {}]        \* in processing when stop_monitoring ran
    /\ actions = <<>>
    /\ i = 1
    /\ results = <<>>
    /\ action_results = <<>>
    /\ pc = "none"
    /\ enhanced = <<>>
    /\ calls = <<>>
    /\ posts = <<>>
    /\ evaluated = <<>>
    /\ cancelled = None
    /\ runs = <<>>
    /\ ledgers = <<>>
    /\ process = NoProcess
    /\ consumer = NoConsumer
    /\ probe = NoProbe

MonitorFrame == UNCHANGED <<runVars, probe, runs, ledgers, process, consumer>>

\* The file _process_single_file is working on
CurrentFile == Head(monitor.new_files)

\* An object is uploaded to the unprocessed folder
ObjectArrives ==
    /\ \E key \in FileKeys \ monitor.arrived :
         monitor' = [monitor EXCEPT !.arrived = @ \cup {key},
                                    !.unprocessed = @ \cup {key}]
    /\ MonitorFrame

\* start_monitoring (lines 37-45): the task is created, not yet run
StartMonitoring ==
    /\ ~monitor.is_running
    /\ monitor.task \in {"none", "done"}
    /\ monitor' = [monitor EXCEPT !.is_running = TRUE, !.task = "created"]
    /\ MonitorFrame

\* lines 81-83: the loop condition, true when the task first runs
MonitorLoop ==
    /\ monitor.task = "created"
    /\ monitor' = [monitor EXCEPT !.task = IF monitor.is_running THEN "check" ELSE "done"]
    /\ MonitorFrame

\* lines 105-118: the listing and the filter on processed_files, both taken
\* once, before the loop over the files
CheckFiles ==
    /\ monitor.task = "check"
    /\ LET new_files == InKeyOrder({key \in monitor.unprocessed :
                                       monitor.etag[key] \notin monitor.processed_files})
       IN  monitor' = IF new_files = <<>>
                      THEN [monitor EXCEPT !.task = "sleep"]
                      ELSE [monitor EXCEPT !.task = "files", !.new_files = new_files]
    /\ MonitorFrame

\* lines 152-154 and 92-101: list_unprocessed_files raises; the loop logs
\* and waits before it retries
CheckFilesRaises ==
    /\ monitor.task = "check"
    /\ monitor' = [monitor EXCEPT !.task = "sleep"]
    /\ MonitorFrame

\* lines 132-137 and 158-177: the next file of the loop is passed to
\* _process_single_file, downloaded and loaded
BeginFile ==
    /\ monitor.task = "files"
    /\ monitor' =
         IF monitor.new_files = <<>> \/ ~monitor.is_running
         THEN [monitor EXCEPT !.task = "sleep", !.new_files = <<>>]
         ELSE [monitor EXCEPT
                  !.task = "events",
                  !.events_done = 0,
                  !.passed_marked =
                      IF monitor.etag[CurrentFile] \in monitor.processed_files
                      THEN @ \cup {CurrentFile} ELSE @]
    /\ MonitorFrame

\* lines 191-198: the next event of the file is passed to process_event
NextEvent ==
    /\ monitor.task = "events"
    /\ monitor.events_done < EventsIn(CurrentFile) /\ monitor.is_running
    /\ monitor' = [monitor EXCEPT !.task = "process_event"]
    /\ MonitorFrame

\* lines 198-203: process_event returns, its result is appended
ProcessEventReturns ==
    /\ monitor.task = "process_event"
    /\ monitor' = [monitor EXCEPT !.task = "events", !.events_done = @ + 1]
    /\ MonitorFrame

\* The file's processing raised (lines 250-257), caught by lines 141-150:
\* the file is not marked and the loop goes on
FileFailed(m) ==
    [m EXCEPT !.task = "files",
              !.new_files = Tail(@),
              !.failed = @ \cup {Head(m.new_files)}]

\* line 198: process_event raises
ProcessEventRaises ==
    /\ monitor.task = "process_event"
    /\ monitor' = FileFailed(monitor)
    /\ MonitorFrame

\* lines 192-193 and 217-234, then line 139: the loop over the events is
\* over, or left because is_running is false; the results are uploaded,
\* the file is moved and its etag marked
FinishFile ==
    /\ monitor.task = "events"
    /\ ~(monitor.events_done < EventsIn(CurrentFile) /\ monitor.is_running)
    /\ monitor' = [monitor EXCEPT
                      !.task = "files",
                      !.new_files = Tail(@),
                      !.unprocessed = @ \ {CurrentFile},
                      !.processed_folder = @ \cup {[key |-> CurrentFile,
                                                    events_processed |-> monitor.events_done,
                                                    results_uploaded |-> monitor.events_done]},
                      !.completed = @ \cup {CurrentFile},
                      !.failed = @ \ {CurrentFile},
                      !.processed_files = @ \cup {monitor.etag[CurrentFile]}]
    /\ MonitorFrame

\* lines 228-231: upload_results or move_to_processed raises; the file
\* stays in the unprocessed folder
FinishFileRaises ==
    /\ monitor.task = "events"
    /\ ~(monitor.events_done < EventsIn(CurrentFile) /\ monitor.is_running)
    /\ monitor' = FileFailed(monitor)
    /\ MonitorFrame

\* lines 84-87 and 81: the wait between two checks is over
SleepEnds ==
    /\ monitor.task = "sleep"
    /\ monitor' = [monitor EXCEPT !.task = IF monitor.is_running THEN "check" ELSE "done"]
    /\ MonitorFrame

\* The monitor task is suspended, so that another task can run
Suspended == monitor.task \in {"created", "process_event", "sleep"}

\* Variant: the CancelledError is caught below the monitor, which goes on.
CancelSwallowed(m) == m

\* lines 65 and 89-91: the CancelledError raised at the await that the task
\* is suspended in passes the "except Exception" handlers of lines 250,
\* 141 and 152, and ends the loop
CancelLands(m) ==
    [m EXCEPT !.task = "done", !.new_files = <<>>]

\* stop_monitoring (lines 56-71): the flag is cleared, the task cancelled
\* and awaited
StopMonitoring ==
    /\ monitor.is_running
    /\ Suspended
    /\ monitor' = CancelLands([monitor EXCEPT
                      !.is_running = FALSE,
                      !.interrupted = IF monitor.task = "process_event"
                                      THEN @ \cup {CurrentFile} ELSE @])
    /\ MonitorFrame

NextMonitor ==
    \/ ObjectArrives
    \/ StartMonitoring
    \/ MonitorLoop
    \/ CheckFiles
    \/ CheckFilesRaises
    \/ BeginFile
    \/ NextEvent
    \/ ProcessEventReturns
    \/ ProcessEventRaises
    \/ FinishFile
    \/ FinishFileRaises
    \/ SleepEnds
    \/ StopMonitoring

SpecMonitor == InitMonitor /\ [][NextMonitor]_vars

\* C28: the etags in processed_files are those of the files whose
\* processing completed without error, and no file is passed to
\* processing while its etag is in processed_files.
C28_MarkedIffCompleted ==
    monitor.kind = "bucket" =>
        /\ monitor.processed_files = {monitor.etag[key] : key \in monitor.completed}
        /\ monitor.passed_marked = {}

\* C29: every file in the processed folder was moved with all of its
\* events processed and the results for all of them uploaded, also after
\* a stop_monitoring during the processing of a file.
C29_MovedOnlyWhenAllProcessed ==
    monitor.kind = "bucket" =>
        \A file \in monitor.processed_folder :
            /\ file.events_processed = EventsIn(file.key)
            /\ file.results_uploaded = EventsIn(file.key)

\* stop_monitoring was called while a file was being processed; the file
\* is still in the unprocessed folder, another one has been moved
C29_Witness ==
    /\ monitor.kind = "bucket"
    /\ \E key \in monitor.interrupted :
          /\ key \in monitor.unprocessed
          /\ \A file \in monitor.processed_folder : file.key # key
    /\ monitor.processed_folder # {}
    /\ ~monitor.is_running

----------------------------------------------------------------------------
(* MCPClient.test_all_servers                                              *)

\* self.server_configs in the order of the dict
ConfiguredServers == <<"virustotal", "servicenow", "cyberreason", "custom_rest">>

\* HTTP statuses a /meta request can be answered with
MetaStatuses == {200, 404, 500}

\* What the GET of /meta produces: a response, an aiohttp.ClientError
\* (the connection failed), or an asyncio.TimeoutError (the session's
\* total timeout, which is no ClientError)
MetaReplies ==
    {[kind |-> "response", status |-> st, body |-> [server_name |-> "test"]] :
        st \in MetaStatuses}
    \cup {[kind |-> "client_error", text |-> "Connection refused"],
          [kind |-> "timeout", text |-> ""]}

\* mcp_client.py lines 50-70, given what the GET produces
get_server_capabilities(server_name, reply) ==
    IF ~IsConfigured(server_name)
    THEN CallFailed("Unknown server: " \o server_name)
    ELSE IF reply.kind = "timeout"
    THEN CallFailed(reply.text)
    ELSE IF reply.kind = "client_error"
    THEN CallReturned([error |-> "Failed to connect: " \o reply.text])
    ELSE IF reply.status = OkStatus
    THEN CallReturned(reply.body)
    ELSE CallReturned([error |-> "Failed to get capabilities: " \o ToString(reply.status)])

\* lines 78-87: the entry test_all_servers stores for one server
ServerEntry(server_name, reply) ==
    LET capabilities == get_server_capabilities(server_name, reply)
    IN  IF capabilities.exc
        THEN [status |-> "offline", error |-> capabilities.error]
        ELSE [status |-> "online", capabilities |-> capabilities.ret]

InitTest ==
    /\ \E replies \in [1..Len(ConfiguredServers) -> MetaReplies] :
         probe = [fn |-> "test_all_servers",
                  replies |-> replies,   \* what each server's /meta request produces
                  position |-> 1,        \* of the for loop of line 76
                  results |-> <<>>,
                  returned |-> FALSE]
    /\ actions = <<>>
    /\ i = 1
    /\ results = <<>>
    /\ action_results = <<>>
    /\ pc = "idle"
    /\ enhanced = <<>>
    /\ calls = <<>>
    /\ posts = <<>>
    /\ evaluated = <<>>
    /\ cancelled = None
    /\ runs = <<>>
    /\ ledgers = <<>>
    /\ process = NoProcess
    /\ consumer = NoConsumer
    /\ monitor = NoMonitor

\* lines 76-87: one turn of the loop
TestServer ==
    /\ probe.fn = "test_all_servers" /\ ~probe.returned
    /\ probe.position <= Len(ConfiguredServers)
    /\ LET server_name == ConfiguredServers[probe.position]
       IN  probe' = [probe EXCEPT
                        !.position = @ + 1,
                        !.results = With(@, server_name,
                                         ServerEntry(server_name, probe.replies[probe.position]))]
    /\ UNCHANGED <<runVars, otherVars>>

\* line 89
TestReturn ==
    /\ probe.fn = "test_all_servers" /\ ~probe.returned
    /\ probe.position > Len(ConfiguredServers)
    /\ probe' = [probe EXCEPT !.returned = TRUE]
    /\ UNCHANGED <<runVars, otherVars>>

NextTest == TestServer \/ TestReturn

SpecTest == InitTest /\ [][NextTest]_vars

\* C30: test_all_servers returns one entry per configured server, "online"
\* where /meta answered 200, "offline" where the request failed to connect
\* or was answered with another status.
C30_OneEntryPerServerByReachability ==
    (probe.fn = "test_all_servers" /\ probe.returned) =>
        /\ DOMAIN probe.results = {ConfiguredServers[n] : n \in 1..Len(ConfiguredServers)}
        /\ \A n \in 1..Len(ConfiguredServers) :
             LET reply == probe.replies[n]
                 entry == probe.results[ConfiguredServers[n]]
             IN  /\ (reply.kind = "response" /\ reply.status = 200) => entry.status = "online"
                 /\ (reply.kind = "client_error"
                       \/ (reply.kind = "response" /\ reply.status # 200))
                        => entry.status = "offline"

====
